---- MODULE Spec2Model ----
(***************************************************************************)
(* Horton: the Grid / Torus addressable storage of horton/grid.py with its *)
(* GridSliceProxy view, and the Game of Life of horton/__init__.py.        *)
(*                                                                         *)
(* The grid accessors are explored on one grid object `g` held by value    *)
(* (its class, dimensions, flat _grid list and the `coords` it caches),    *)
(* with a second grid `other`                                              *)
(* as the right operand of ==, at most one slice proxy `sub` taken from g, *)
(* and the last call made together with its outcome (a returned value or   *)
(* the exception raised).                                                  *)
(*                                                                         *)
(* What depends on the identity of objects (copies, defaults, arithmetic,  *)
(* the stepper and its generator) is explored on an object graph: `heap`   *)
(* holds the mutable containers, `env` the objects bound to names, `gen`   *)
(* the generator of generations() and `yielded` what its consumer has      *)
(* collected.                                                              *)
(***************************************************************************)
EXTENDS Integers, Sequences, FiniteSets

(***************************************************************************)
(* Bounds of the exploration.                                              *)
(***************************************************************************)
MaxDim == 3
MaxCells == 9
MaxLive == 2
MaxShift == 1
MaxGen == 3

\* cell values: the default of Grid.__init__ and the live cell of the stepper
Dead == 0
Alive == 1

Dims == 1..MaxDim
Val == {Dead, Alive}
\* integer coordinates handed to the accessors: every in-range coordinate
\* shifted by k*width, k in -MaxShift..MaxShift
Shifts == (0 - MaxShift)..MaxShift
CoordRange == (0 - MaxShift * MaxDim)..((MaxShift + 1) * MaxDim - 1)
\* coordinates handed to a bounds-checked Grid: up to one step outside the
\* grid on either side
GridRange == (0 - 1)..MaxDim
\* slicing and the slice proxy are explored on parents one smaller; corner and
\* local coordinates reach one step outside the largest parent on either side
SliceDims == 1..(MaxDim - 1)
SliceRange == (0 - 1)..(MaxDim - 1)
\* corners inside the largest parent
CornerRange == 0..(MaxDim - 2)

VARIABLES cls, width, height, grid, other, proxy, alive, coords, call, ret,
          heap, env, gen, yielded

vars == <<cls, width, height, grid, other, proxy, alive, coords, call, ret,
          heap, env, gen, yielded>>

\* the single grid g held by value, its proxy and the right operand of ==
gridVars == <<cls, width, height, grid, other, proxy, alive, coords>>

\* the object graph: list objects, the grids that refer to them, a generator
\* and what its consumer has collected
heapVars == <<heap, env, gen, yielded>>

(***************************************************************************)
(* Outcomes of a call: a returned value, or the exception that escaped.    *)
(***************************************************************************)
Returns(v) == [exc |-> "none", val |-> <<v>>]
ReturnsNothing == [exc |-> "none", val |-> <<>>]
Raises(e) == [exc |-> e, val |-> <<>>]

Call(op, x, y, x2, y2, v) ==
    [op |-> op, x |-> x, y |-> y, x2 |-> x2, y2 |-> y2, v |-> v]

(***************************************************************************)
(* Python lists: l[i] for an integer i, negative indices counting from the *)
(* end, IndexError outside -len..len-1.  The list is the sequence 1..n.    *)
(***************************************************************************)
ListIndexOK(l, i) == i >= 0 - Len(l) /\ i < Len(l)
ListPos(l, i) == IF i < 0 THEN Len(l) + i + 1 ELSE i + 1
ListItem(l, i) == l[ListPos(l, i)]
ListStore(l, i, v) == [l EXCEPT ![ListPos(l, i)] = v]

\* the number of cells that are not the default value (bounds the exploration)
Live(l) == Cardinality({i \in 1..Len(l) : l[i] # Dead})

\* tuple (and slice) comparison of Python: lexicographic
TupleLT(a, b) == a[1] < b[1] \/ (a[1] = b[1] /\ a[2] < b[2])

(***************************************************************************)
(* Grid                                                                    *)
(***************************************************************************)
\* Grid.__init__(width, height, value)
NewGrid(w, h, value) == [i \in 1..(w * h) |-> value]

\* Grid.from_array: the arrays the exploration starts from (the all-zero
\* array is what Grid(width, height) builds)
InitArrays(n) == {[i \in 1..n |-> IF i = j THEN Alive ELSE Dead] : j \in 0..n}

\* a list with at most one live cell: the parents the slice proxy is explored
\* on
OneLive(l) == Live(l) <= 1

\* self._coordinates = None of Grid.__init__: nothing is cached
NoCoordinates == [cached |-> FALSE, list |-> <<>>]

\* Grid.coordinates: row-major, y outer, x inner
Coordinates(w, h) == {<<x, y>> : x \in 0..(w - 1), y \in 0..(h - 1)}

\* mutant: the upper bound of x is off by one
IsValidLocationOffByOne(w, h, x, y) ==
    IF x < 0 \/ x > w THEN FALSE
    ELSE IF y < 0 \/ y > h - 1 THEN FALSE
    ELSE TRUE

IsValidLocation(w, h, x, y) ==
    IF x < 0 \/ x > w - 1 THEN FALSE
    ELSE IF y < 0 \/ y > h - 1 THEN FALSE
    ELSE TRUE

\* mutant: rows of `height` cells instead of `width`
GridIndexByHeight(w, h, x, y) == y * h + x

\* the linear index of Grid.__get_coordinate__ and Grid.__setitem__
GridIndex(w, h, x, y) == y * w + x

GetCoordinate(w, h, g, x, y) ==
    IF ~IsValidLocation(w, h, x, y) THEN Raises("KeyError")
    ELSE IF ~ListIndexOK(g, GridIndex(w, h, x, y)) THEN Raises("KeyError")
    ELSE Returns(ListItem(g, GridIndex(w, h, x, y)))

GridSetItem(w, h, g, x, y, v) ==
    IF ~IsValidLocation(w, h, x, y)
    THEN [ret |-> Raises("KeyError"), grid |-> g]
    ELSE IF ~ListIndexOK(g, GridIndex(w, h, x, y))
    THEN [ret |-> Raises("KeyError"), grid |-> g]
    ELSE [ret |-> ReturnsNothing,
          grid |-> ListStore(g, GridIndex(w, h, x, y), v)]

(***************************************************************************)
(* Torus                                                                   *)
(***************************************************************************)
\* the linear index of Torus.__getitem__ and Torus.__setitem__
TorusIndex(w, h, x, y) == (y % h) * h + (x % w)

TorusGetItem(w, h, g, x, y) ==
    IF ~ListIndexOK(g, TorusIndex(w, h, x, y)) THEN Raises("IndexError")
    ELSE Returns(ListItem(g, TorusIndex(w, h, x, y)))

TorusSetItem(w, h, g, x, y, v) ==
    IF ~ListIndexOK(g, TorusIndex(w, h, x, y))
    THEN [ret |-> Raises("IndexError"), grid |-> g]
    ELSE [ret |-> ReturnsNothing,
          grid |-> ListStore(g, TorusIndex(w, h, x, y), v)]

(***************************************************************************)
(* g[x, y], g[x, y] = v and g.get(x, y, default), dispatched on the class  *)
(***************************************************************************)
GetItem(c, w, h, g, x, y) ==
    IF c = "Torus" THEN TorusGetItem(w, h, g, x, y)
    ELSE GetCoordinate(w, h, g, x, y)

SetItem(c, w, h, g, x, y, v) ==
    IF c = "Torus" THEN TorusSetItem(w, h, g, x, y, v)
    ELSE GridSetItem(w, h, g, x, y, v)

Get(c, w, h, g, x, y, default) ==
    LET r == GetItem(c, w, h, g, x, y)
    IN  IF r.exc = "KeyError" THEN Returns(default) ELSE r

\* Grid.__eq__
Eq(g, o) == Returns(g = o.grid)

(***************************************************************************)
(* Slicing and GridSliceProxy                                              *)
(***************************************************************************)
NoProxy == [exists |-> FALSE, x1 |-> 0, y1 |-> 0, x2 |-> 0, y2 |-> 0]

\* GridSliceProxy.__init__
NewProxy(x1, y1, x2, y2) ==
    [exists |-> TRUE, x1 |-> x1, y1 |-> y1, x2 |-> x2, y2 |-> y2]

\* Grid.__get_slice__(slice(x1, y1), slice(x2, y2))
GetSlice(w, h, x1, y1, x2, y2) ==
    IF TupleLT(<<x2, y2>>, <<x1, y1>>)
    THEN [ret |-> Raises("ValueError"), proxy |-> NoProxy]
    ELSE IF TupleLT(<<x1, y1>>, <<0, 0>>)
    THEN [ret |-> Raises("KeyError"), proxy |-> NoProxy]
    ELSE IF TupleLT(<<w - 1, h - 1>>, <<x2, y2>>)
    THEN [ret |-> Raises("KeyError"), proxy |-> NoProxy]
    ELSE [ret |-> ReturnsNothing, proxy |-> NewProxy(x1, y1, x2, y2)]

\* mutant: the local coordinate is used as the parent's coordinate
ProxyTargetUntranslated(p, lx, ly) == <<lx, ly>>

\* dx, dy = (self.x1 + target[0], self.y1 + target[1])
ProxyTarget(p, lx, ly) == <<p.x1 + lx, p.y1 + ly>>

\* (dx, dy) > (self.x2, self.y2) or target < (0, 0)
ProxyOutOfBounds(p, lx, ly) ==
    \/ TupleLT(<<p.x2, p.y2>>, ProxyTarget(p, lx, ly))
    \/ TupleLT(<<lx, ly>>, <<0, 0>>)

\* mutant: a strong reference, the parent is never seen as gone
GridRefUnchecked(live, outcome) == outcome

\* self._grid_ref.<method>: the weak proxy of a destroyed grid raises
GridRef(live, outcome) ==
    IF live THEN outcome ELSE Raises("ReferenceError")

ProxyGetItem(p, live, w, h, g, lx, ly) ==
    IF ProxyOutOfBounds(p, lx, ly) THEN Raises("KeyError")
    ELSE GridRef(live, GetCoordinate(w, h, g, ProxyTarget(p, lx, ly)[1],
                                     ProxyTarget(p, lx, ly)[2]))

ProxySetItem(p, live, c, w, h, g, lx, ly, v) ==
    IF ProxyOutOfBounds(p, lx, ly)
    THEN [ret |-> Raises("KeyError"), grid |-> g]
    ELSE IF ~live
    THEN [ret |-> GridRef(live, ReturnsNothing), grid |-> g]
    ELSE SetItem(c, w, h, g, ProxyTarget(p, lx, ly)[1],
                 ProxyTarget(p, lx, ly)[2], v)

\* Torus.__getitem__ handed a pair of slices: it has no slice branch, and
\* x = args[0][0] % self.width is slice % int
TorusGetItemSlice(w, h, x1, y1, x2, y2) ==
    [ret |-> Raises("TypeError"), proxy |-> NoProxy]

\* g[x1:y1, x2:y2], dispatched on the class
GetItemSlice(c, w, h, x1, y1, x2, y2) ==
    IF c = "Torus" THEN TorusGetItemSlice(w, h, x1, y1, x2, y2)
    ELSE GetSlice(w, h, x1, y1, x2, y2)

(***************************************************************************)
(* The Grid of the standalone module conway.py                             *)
(***************************************************************************)
\* the linear index of conway.py's Grid.__getitem__ and Grid.__setitem__:
\* args[0][1] * self.height + args[0][0]
ConwayGridIndex(w, h, x, y) == y * h + x

\* conway.py Grid.__getitem__: the location check, then the list lookup whose
\* IndexError becomes a KeyError
ConwayGetItem(w, h, g, x, y) ==
    IF ~IsValidLocation(w, h, x, y) THEN Raises("KeyError")
    ELSE IF ~ListIndexOK(g, ConwayGridIndex(w, h, x, y))
    THEN Raises("KeyError")
    ELSE Returns(ListItem(g, ConwayGridIndex(w, h, x, y)))

\* conway.py Grid.__setitem__
ConwaySetItem(w, h, g, x, y, v) ==
    IF ~IsValidLocation(w, h, x, y)
    THEN [ret |-> Raises("KeyError"), grid |-> g]
    ELSE IF ~ListIndexOK(g, ConwayGridIndex(w, h, x, y))
    THEN [ret |-> Raises("KeyError"), grid |-> g]
    ELSE [ret |-> ReturnsNothing,
          grid |-> ListStore(g, ConwayGridIndex(w, h, x, y), v)]

(***************************************************************************)
(* The object graph.  A value is an int, None, or a reference to a mutable *)
(* container on the heap; a container (a Python list, or the dict or list  *)
(* held in a cell) is the sequence of the values it holds, and its         *)
(* identity is its index in `heap`.  A grid object holds its class, its    *)
(* dimensions and the reference of its _grid list.                         *)
(***************************************************************************)
IntVal(n) == [k |-> "int", v |-> n]
RefVal(r) == [k |-> "ref", v |-> r]
None == [k |-> "None", v |-> 0]

\* the cell values of the Game of Life
Cells == {IntVal(Dead), IntVal(Alive)}

GridObj(c, w, h, r) == [cls |-> c, width |-> w, height |-> h, grid |-> r]
NoGrid == GridObj("none", 0, 0, 0)

\* a named value that is not a grid: the mutable default d of Grid(...) or
\* the array arr of from_array, the container heap[r]
ValObj(r) == [cls |-> "value", width |-> 0, height |-> 0, grid |-> r]

\* the names bound to objects: the grids g, a second operand h and a result
\* r, and the arguments d and arr
Names == {"g", "h", "r", "d", "arr"}
NoEnv == [n \in Names |-> NoGrid]

\* no generator has been created
NoGen == [pc |-> "none", num |-> 0, generation |-> 0, seed |-> NoGrid,
          world |-> NoGrid]

\* a call on the grid object bound to the name n
ObjCall(op, n, x, y, v) ==
    [op |-> op, obj |-> n, x |-> x, y |-> y, x2 |-> 0, y2 |-> 0, v |-> v]

\* o[x, y] for the grid object o
Cell(hp, o, x, y) == GetItem(o.cls, o.width, o.height, hp[o.grid], x, y)

\* the specifications of the single grid g leave the object graph empty
NoHeap ==
    /\ heap = <<>>
    /\ env = NoEnv
    /\ gen = NoGen
    /\ yielded = <<>>

\* the specifications of the object graph leave the single grid g unset
NoSingleGrid ==
    /\ cls = "none"
    /\ width = 0
    /\ height = 0
    /\ grid = <<>>
    /\ other = [width |-> 0, height |-> 0, grid |-> <<>>]
    /\ proxy = [exists |-> FALSE, x1 |-> 0, y1 |-> 0, x2 |-> 0, y2 |-> 0]
    /\ alive = FALSE
    /\ coords = NoCoordinates

\* copy.copy(value): a new container holding the same values; an int is
\* returned as it is
Copy(hp, v) ==
    IF v.k # "ref" THEN [heap |-> hp, val |-> v]
    ELSE [heap |-> Append(hp, hp[v.v]), val |-> RefVal(Len(hp) + 1)]

\* the memo of one deepcopy call: the copy made of each container, 0 if none
NoMemo(hp) == [i \in 1..Len(hp) |-> 0]

\* copy.deepcopy(v, memo): y = []; memo[id(x)] = y;
\* for a in x: y.append(deepcopy(a, memo))
RECURSIVE DeepCopy(_, _, _), DeepCopyItems(_, _, _, _, _)
DeepCopy(hp, memo, v) ==
    IF v.k # "ref" THEN [heap |-> hp, memo |-> memo, val |-> v]
    ELSE IF memo[v.v] # 0
    THEN [heap |-> hp, memo |-> memo, val |-> RefVal(memo[v.v])]
    ELSE LET y == Len(hp) + 1
             r == DeepCopyItems(Append(hp, <<>>), [memo EXCEPT ![v.v] = y],
                                v.v, y, 1)
         IN  [heap |-> r.heap, memo |-> r.memo, val |-> RefVal(y)]

DeepCopyItems(hp, memo, x, y, i) ==
    IF i > Len(hp[x]) THEN [heap |-> hp, memo |-> memo]
    ELSE LET r == DeepCopy(hp, memo, hp[x][i])
         IN  DeepCopyItems([r.heap EXCEPT ![y] = Append(@, r.val)],
                           r.memo, x, y, i + 1)

\* [copy(value) for _ in range(n)]
RECURSIVE CopyTimes(_, _, _)
CopyTimes(hp, value, n) ==
    IF n = 0 THEN [heap |-> hp, items |-> <<>>]
    ELSE LET r == CopyTimes(hp, value, n - 1)
             c == Copy(r.heap, value)
         IN  [heap |-> c.heap, items |-> Append(r.items, c.val)]

\* cls(width, height, value): Grid.__init__ on the heap
GridNew(c, hp, w, h, value) ==
    LET r == CopyTimes(hp, value, w * h)
    IN  [heap |-> Append(r.heap, r.items),
         obj |-> GridObj(c, w, h, Len(r.heap) + 1)]

\* mutant: the copy is a new list of the same cell objects
GridCopyShallow(c, hp, o) ==
    [heap |-> Append(hp, hp[o.grid]),
     obj |-> GridObj(c, o.width, o.height, Len(hp) + 1)]

\* mutant: the copy refers to the list of the original
GridCopyAliased(c, hp, o) ==
    [heap |-> hp, obj |-> GridObj(c, o.width, o.height, o.grid)]

\* Grid.copy(other), called on class c: g = cls(other.width, other.height);
\* g._grid = deepcopy(other._grid).  The list cls(...) built is dropped when
\* _grid is rebound.
GridCopy(c, hp, o) ==
    LET d == DeepCopy(hp, NoMemo(hp), RefVal(o.grid))
    IN  [heap |-> d.heap, obj |-> GridObj(c, o.width, o.height, d.val.v)]

(***************************************************************************)
(* from_array, values and iteration                                        *)
(***************************************************************************)
\* mutant: the length of the array is not checked
FromArrayUnchecked(c, hp, w, h, arr, copy) ==
    LET a == IF copy THEN DeepCopy(hp, NoMemo(hp), RefVal(arr))
             ELSE [heap |-> hp, val |-> RefVal(arr)]
    IN  [heap |-> a.heap, ret |-> Returns(GridObj(c, w, h, a.val.v))]

\* cls.from_array(width, height, arr, copy): the assertion on the length,
\* g = cls(width, height), g._grid = deepcopy(arr) if copy else arr
FromArray(c, hp, w, h, arr, copy) ==
    IF Len(hp[arr]) # w * h
    THEN [heap |-> hp, ret |-> Raises("AssertionError")]
    ELSE LET a == IF copy THEN DeepCopy(hp, NoMemo(hp), RefVal(arr))
                  ELSE [heap |-> hp, val |-> RefVal(arr)]
         IN  [heap |-> a.heap, ret |-> Returns(GridObj(c, w, h, a.val.v))]

\* Grid.values: deepcopy(self._grid)
Values(hp, o) ==
    LET d == DeepCopy(hp, NoMemo(hp), RefVal(o.grid))
    IN  [heap |-> d.heap, ret |-> Returns(d.val)]

\* list(g): a new list of what iter(self._grid) yields
ListOf(hp, o) ==
    [heap |-> Append(hp, hp[o.grid]), ret |-> Returns(RefVal(Len(hp) + 1))]

\* Grid.coordinates as the list it is: row-major, y outer, x inner
CoordinateList(w, h) ==
    [i \in 1..(w * h) |-> <<(i - 1) % w, (i - 1) \div w>>]

\* mutant: the comprehension runs x outer, y inner
GridCoordinatesColumnMajor(w, h, cache) ==
    LET l == [i \in 1..(w * h) |-> <<(i - 1) \div h, (i - 1) % h>>]
    IN  IF cache.cached /\ cache.list # <<>>
        THEN [ret |-> Returns(cache.list), coords |-> cache]
        ELSE [ret |-> Returns(l), coords |-> [cached |-> TRUE, list |-> l]]

\* the property Grid.coordinates: the cached list when there is one and it is
\* not empty, else the list is built, stored in self._coordinates and
\* returned
GridCoordinates(w, h, cache) ==
    IF cache.cached /\ cache.list # <<>>
    THEN [ret |-> Returns(cache.list), coords |-> cache]
    ELSE [ret |-> Returns(CoordinateList(w, h)),
          coords |-> [cached |-> TRUE, list |-> CoordinateList(w, h)]]

\* Grid.items: zip(self.coordinates, self.values)
Items(w, h, g) ==
    LET cs == CoordinateList(w, h)
        n == IF Len(cs) < Len(g) THEN Len(cs) ELSE Len(g)
    IN  Returns([i \in 1..n |-> <<cs[i], g[i]>>])

\* list(g.iter_items()): (coordinate, self.__getitem__(coordinate)) for each
\* coordinate; an exception raised by a lookup ends the traversal
IterItems(c, w, h, g) ==
    LET cs == CoordinateList(w, h)
        got == [i \in 1..Len(cs) |-> GetItem(c, w, h, g, cs[i][1], cs[i][2])]
        failed == {i \in 1..Len(cs) : got[i].exc # "none"}
    IN  IF failed # {}
        THEN got[CHOOSE i \in failed : \A j \in failed : i <= j]
        ELSE Returns([i \in 1..Len(cs) |-> <<cs[i], got[i].val[1]>>])

(***************************************************************************)
(* Mutable cell values: o[x, y][0] = v and o[x, y][0][0] = v mutate the    *)
(* container a cell refers to, or the container nested in it               *)
(***************************************************************************)
\* container[0] = v for the value c
StoreFirst(hp, c, v) ==
    IF c.k # "ref" THEN [heap |-> hp, ret |-> Raises("TypeError")]
    ELSE IF Len(hp[c.v]) = 0 THEN [heap |-> hp, ret |-> Raises("IndexError")]
    ELSE [heap |-> [hp EXCEPT ![c.v] = [@ EXCEPT ![1] = v]],
          ret |-> ReturnsNothing]

\* o[x, y][0] = v
MutateCell(hp, o, x, y, v) ==
    LET c == Cell(hp, o, x, y)
    IN  IF c.exc # "none" THEN [heap |-> hp, ret |-> c]
        ELSE StoreFirst(hp, c.val[1], v)

\* o[x, y][0][0] = v
MutateNested(hp, o, x, y, v) ==
    LET c == Cell(hp, o, x, y)
    IN  IF c.exc # "none" THEN [heap |-> hp, ret |-> c]
        ELSE IF c.val[1].k # "ref"
        THEN [heap |-> hp, ret |-> Raises("TypeError")]
        ELSE IF Len(hp[c.val[1].v]) = 0
        THEN [heap |-> hp, ret |-> Raises("IndexError")]
        ELSE StoreFirst(hp, hp[c.val[1].v][1], v)

(***************************************************************************)
(* The Game of Life of horton/__init__.py                                  *)
(***************************************************************************)
\* mutant: the lookup wraps the coordinate, as conway.py's get_at does
GetAtWrapped(o, l, x, y) ==
    GetItem(o.cls, o.width, o.height, l, x % o.width, y % o.height)

\* get_at(world, coord): world[coord.x, coord.y], None on KeyError
GetAt(o, l, x, y) ==
    LET r == GetItem(o.cls, o.width, o.height, l, x, y)
    IN  IF r.exc = "KeyError" THEN Returns(None) ELSE r

\* the eight coordinates neighbours() looks at, in its order
NeighbourOffsets ==
    << <<0 - 1, 0>>, <<1, 0>>, <<0, 0 - 1>>, <<0, 1>>,
       <<0 - 1, 0 - 1>>, <<1, 0 - 1>>, <<0 - 1, 1>>, <<1, 1>> >>

\* sum(filter(lambda x: x is not None, cells))
RECURSIVE SumCells(_, _)
SumCells(cells, i) ==
    IF i > Len(cells) THEN 0
    ELSE (IF cells[i].val[1] = None THEN 0 ELSE cells[i].val[1].v)
            + SumCells(cells, i + 1)

\* neighbours(world, coord) on the world o whose _grid list is l
Neighbours(o, l, x, y) ==
    LET cells == [i \in 1..Len(NeighbourOffsets) |->
                     GetAt(o, l, x + NeighbourOffsets[i][1],
                                 y + NeighbourOffsets[i][2])]
        failed == {i \in 1..Len(cells) : cells[i].exc # "none"}
    IN  IF failed # {}
        THEN cells[CHOOSE i \in failed : \A j \in failed : i <= j]
        ELSE Returns(SumCells(cells, 1))

\* mutant: a live cell with a single neighbour survives
NextCellLonelySurvives(cell, ns, kept) ==
    IF cell = IntVal(Alive)
    THEN IF ns < 1 \/ ns > 3 THEN IntVal(Dead) ELSE IntVal(Alive)
    ELSE IF ns = 3 THEN IntVal(Alive) ELSE IntVal(Dead)

\* mutant: a cell that is not live and has no three neighbours is left as
\* copied
NextCellKeepsDead(cell, ns, kept) ==
    IF cell = IntVal(Alive)
    THEN IF ns = 2 \/ ns = 3 THEN IntVal(Alive) ELSE IntVal(Dead)
    ELSE IF ns = 3 THEN IntVal(Alive) ELSE kept

\* the body of step's loop: the value written to new_world[x, y] for a cell
\* with ns neighbours (new_world[x, y] holds `kept` when no branch assigns)
NextCell(cell, ns, kept) ==
    IF cell = IntVal(Alive)
    THEN LET a == IF ns < 2 THEN IntVal(Dead) ELSE kept
             b == IF ns = 2 \/ ns = 3 THEN IntVal(Alive) ELSE a
         IN  IF ns > 3 THEN IntVal(Dead) ELSE b
    ELSE IF ns = 3 THEN IntVal(Alive) ELSE IntVal(Dead)

\* for coord, cell in coordinates(world): ...; the i-th coordinate of the
\* row-major traversal (y outer, x inner) is read from world when the loop
\* reaches it
RECURSIVE StepLoop(_, _, _, _)
StepLoop(hp, world, nw, i) ==
    IF i > world.width * world.height THEN [ret |-> Returns(nw), heap |-> hp]
    ELSE LET x == (i - 1) % world.width
             y == (i - 1) \div world.width
             cell == GetItem(world.cls, world.width, world.height,
                             hp[world.grid], x, y)
             ns == Neighbours(world, hp[world.grid], x, y)
         IN  IF cell.exc # "none" THEN [ret |-> cell, heap |-> hp]
             ELSE IF ns.exc # "none" THEN [ret |-> ns, heap |-> hp]
             ELSE LET w == SetItem(nw.cls, nw.width, nw.height, hp[nw.grid],
                                   x, y,
                                   NextCell(cell.val[1], ns.val[1],
                                            ListItem(hp[nw.grid],
                                                     GridIndex(nw.width,
                                                               nw.height,
                                                               x, y))))
                  IN  IF w.ret.exc # "none" THEN [ret |-> w.ret, heap |-> hp]
                      ELSE StepLoop([hp EXCEPT ![nw.grid] = w.grid],
                                    world, nw, i + 1)

\* mutant: the rule is applied in place, to the world itself
StepInPlace(hp, world) == StepLoop(hp, world, world, 1)

\* step(world): new_world = Grid.copy(world), then the loop
Step(hp, world) ==
    LET c == GridCopy("Grid", hp, world)
    IN  StepLoop(c.heap, world, c.obj, 1)

\* generations(num, starting_world): the generator object; none of its body
\* runs until the first next()
NewGenerator(num, seed) ==
    [pc |-> "created", num |-> num, generation |-> 0, seed |-> seed,
     world |-> NoGrid]

\* mutant: the loop runs one iteration more
GenLoopOneMore(hp, g, generation, w) ==
    IF generation <= g.num
    THEN [heap |-> hp, exc |-> "none", out |-> <<[generation |-> generation,
                                                  world |-> w]>>,
          gen |-> [g EXCEPT !.pc = "yielded", !.generation = generation,
                            !.world = w]]
    ELSE [heap |-> hp, exc |-> "StopIteration", out |-> <<>>,
          gen |-> [g EXCEPT !.pc = "done", !.world = w]]

\* xrange(num) of the for loop: the generator, about to run iteration
\* `generation` with the world w, yields the pair or is exhausted
GenLoop(hp, g, generation, w) ==
    IF generation < g.num
    THEN [heap |-> hp, exc |-> "none", out |-> <<[generation |-> generation,
                                                  world |-> w]>>,
          gen |-> [g EXCEPT !.pc = "yielded", !.generation = generation,
                            !.world = w]]
    ELSE [heap |-> hp, exc |-> "StopIteration", out |-> <<>>,
          gen |-> [g EXCEPT !.pc = "done", !.world = w]]

\* next(generator): from the start, world = Grid.copy(starting_world) and the
\* first iteration; from a yield, world = step(world) and the next iteration
GenNext(hp, g) ==
    IF g.pc = "created"
    THEN LET c == GridCopy("Grid", hp, g.seed)
         IN  GenLoop(c.heap, g, 0, c.obj)
    ELSE LET s == Step(hp, g.world)
         IN  IF s.ret.exc # "none"
             THEN [heap |-> s.heap, exc |-> s.ret.exc, out |-> <<>>,
                   gen |-> [g EXCEPT !.pc = "done"]]
             ELSE GenLoop(s.heap, g, g.generation + 1, s.ret.val[1])

(***************************************************************************)
(* Grid arithmetic                                                         *)
(***************************************************************************)
\* Grid.__add__(self, other): the assertion on the dimensions, then
\* g = Grid(*self.dimensions) and g._grid[idx] = val + other._grid[idx]
GridAdd(hp, a, b) ==
    IF <<a.width, a.height>> # <<b.width, b.height>>
    THEN [heap |-> hp, ret |-> Raises("AssertionError")]
    ELSE IF Len(hp[b.grid]) < Len(hp[a.grid])
    THEN [heap |-> hp, ret |-> Raises("IndexError")]
    ELSE [heap |-> Append(hp, [idx \in 1..Len(hp[a.grid]) |->
                                  IntVal(hp[a.grid][idx].v + hp[b.grid][idx].v)]),
          ret |-> Returns(GridObj("Grid", a.width, a.height, Len(hp) + 1))]

\* mutant: the operands of the subtraction are swapped
GridSubSwapped(hp, a, b) ==
    IF <<a.width, a.height>> # <<b.width, b.height>>
    THEN [heap |-> hp, ret |-> Raises("AssertionError")]
    ELSE [heap |-> Append(hp, [idx \in 1..Len(hp[a.grid]) |->
                                  IntVal(hp[b.grid][idx].v - hp[a.grid][idx].v)]),
          ret |-> Returns(GridObj("Grid", a.width, a.height, Len(hp) + 1))]

\* Grid.__sub__(self, other)
GridSub(hp, a, b) ==
    IF <<a.width, a.height>> # <<b.width, b.height>>
    THEN [heap |-> hp, ret |-> Raises("AssertionError")]
    ELSE IF Len(hp[b.grid]) < Len(hp[a.grid])
    THEN [heap |-> hp, ret |-> Raises("IndexError")]
    ELSE [heap |-> Append(hp, [idx \in 1..Len(hp[a.grid]) |->
                                  IntVal(hp[a.grid][idx].v - hp[b.grid][idx].v)]),
          ret |-> Returns(GridObj("Grid", a.width, a.height, Len(hp) + 1))]

(***************************************************************************)
(* Initial states: g = cls(width, height), or                              *)
(* g = cls.from_array(width, height, arr)                                  *)
(***************************************************************************)
InitOf(c, dims, fromArray) ==
    /\ cls = c
    /\ width \in dims
    /\ height \in dims
    /\ width * height <= MaxCells
    /\ grid \in IF fromArray THEN InitArrays(width * height)
                ELSE {NewGrid(width, height, Dead)}
    /\ other = [width |-> width, height |-> height,
                grid |-> NewGrid(width, height, Dead)]
    /\ proxy = NoProxy
    /\ alive = TRUE
    /\ coords = NoCoordinates
    /\ call = Call("__init__", 0, 0, 0, 0, 0)
    /\ ret = ReturnsNothing
    /\ NoHeap

(***************************************************************************)
(* Calls on the grid g                                                     *)
(***************************************************************************)
\* g[x, y]
CallGetItem(x, y) ==
    /\ alive
    /\ call' = Call("__getitem__", x, y, 0, 0, 0)
    /\ ret' = GetItem(cls, width, height, grid, x, y)
    /\ UNCHANGED <<cls, width, height, grid, other, proxy, alive>>
    /\ UNCHANGED <<coords, heapVars>>

\* g[x, y] = v
CallSetItem(x, y, v) ==
    /\ alive
    /\ call' = Call("__setitem__", x, y, 0, 0, v)
    /\ LET r == SetItem(cls, width, height, grid, x, y, v)
       IN  ret' = r.ret /\ grid' = r.grid
    /\ Live(grid') <= MaxLive
    /\ UNCHANGED <<cls, width, height, other, proxy, alive>>
    /\ UNCHANGED <<coords, heapVars>>

\* g.get(x, y, default)
CallGet(x, y, default) ==
    /\ alive
    /\ call' = Call("get", x, y, 0, 0, default)
    /\ ret' = Get(cls, width, height, grid, x, y, default)
    /\ UNCHANGED <<cls, width, height, grid, other, proxy, alive>>
    /\ UNCHANGED <<coords, heapVars>>

\* g == other
CallEq ==
    /\ alive
    /\ call' = Call("__eq__", 0, 0, 0, 0, 0)
    /\ ret' = Eq(grid, other)
    /\ UNCHANGED <<cls, width, height, grid, other, proxy, alive>>
    /\ UNCHANGED <<coords, heapVars>>

\* sub = g[x1:y1, x2:y2]
CallGetSlice(x1, y1, x2, y2) ==
    /\ alive
    /\ call' = Call("__get_slice__", x1, y1, x2, y2, 0)
    /\ LET r == GetSlice(width, height, x1, y1, x2, y2)
       IN  ret' = r.ret /\ proxy' = IF r.ret.exc = "none" THEN r.proxy ELSE proxy
    /\ UNCHANGED <<cls, width, height, grid, other, alive>>
    /\ UNCHANGED <<coords, heapVars>>

\* del g: the last strong reference to the grid goes away
DelGrid ==
    /\ alive
    /\ alive' = FALSE
    /\ grid' = <<>>
    /\ call' = Call("del", 0, 0, 0, 0, 0)
    /\ ret' = ReturnsNothing
    /\ UNCHANGED <<cls, width, height, other, proxy>>
    /\ UNCHANGED <<coords, heapVars>>

(***************************************************************************)
(* Calls on the slice proxy sub                                            *)
(***************************************************************************)
\* sub[lx, ly]
CallProxyGetItem(lx, ly) ==
    /\ proxy.exists
    /\ call' = Call("proxy.__getitem__", lx, ly, 0, 0, 0)
    /\ ret' = ProxyGetItem(proxy, alive, width, height, grid, lx, ly)
    /\ UNCHANGED <<cls, width, height, grid, other, proxy, alive>>
    /\ UNCHANGED <<coords, heapVars>>

\* sub[lx, ly] = v
CallProxySetItem(lx, ly, v) ==
    /\ proxy.exists
    /\ call' = Call("proxy.__setitem__", lx, ly, 0, 0, v)
    /\ LET r == ProxySetItem(proxy, alive, cls, width, height, grid,
                             lx, ly, v)
       IN  ret' = r.ret /\ grid' = r.grid
    /\ Live(grid') <= MaxLive
    /\ UNCHANGED <<cls, width, height, other, proxy, alive>>
    /\ UNCHANGED <<coords, heapVars>>

(***************************************************************************)
(* Spec: a bounds-checked Grid and its coordinate accessors                *)
(***************************************************************************)
Init == InitOf("Grid", Dims, FALSE)

Next ==
    \/ \E x \in GridRange, y \in GridRange :
          x <= width /\ y <= height /\ CallGetItem(x, y)
    \/ \E x \in GridRange, y \in GridRange, v \in Val :
          x <= width /\ y <= height /\ CallSetItem(x, y, v)
    \/ \E x \in GridRange, y \in GridRange, d \in Val :
          x <= width /\ y <= height /\ CallGet(x, y, d)

Spec == Init /\ [][Next]_vars

(***************************************************************************)
(* SpecTorus: a Torus and its coordinate accessors                         *)
(***************************************************************************)
InitTorus == InitOf("Torus", Dims, TRUE)

NextTorus ==
    \/ \E x \in CoordRange, y \in CoordRange : CallGetItem(x, y)
    \/ \E x \in CoordRange, y \in CoordRange, v \in Val : CallSetItem(x, y, v)

SpecTorus == InitTorus /\ [][NextTorus]_vars

(***************************************************************************)
(* SpecEq: two Grids, writes to the left one, and g == other               *)
(***************************************************************************)
InitEq ==
    /\ cls = "Grid"
    /\ width \in Dims
    /\ height \in Dims
    /\ width * height <= MaxCells
    /\ grid \in InitArrays(width * height)
    /\ \E ow \in Dims, oh \in Dims :
           /\ ow * oh <= MaxCells
           /\ \E arr \in InitArrays(ow * oh) :
                 other = [width |-> ow, height |-> oh, grid |-> arr]
    /\ proxy = NoProxy
    /\ alive = TRUE
    /\ coords = NoCoordinates
    /\ call = Call("__init__", 0, 0, 0, 0, 0)
    /\ ret = ReturnsNothing
    /\ NoHeap

NextEq ==
    \/ \E x \in Dims, y \in Dims, v \in Val : CallSetItem(x - 1, y - 1, v)
    \/ CallEq

SpecEq == InitEq /\ [][NextEq]_vars

(***************************************************************************)
(* SpecSlice: a Grid, one slice proxy sub = g[x1:y1, x2:y2] taken from it, *)
(* then reads and writes through the proxy and directly on the parent      *)
(***************************************************************************)
InitSlice == InitOf("Grid", SliceDims, FALSE)

NextSlice ==
    \/ \E x1 \in CornerRange, y1 \in CornerRange,
          x2 \in CornerRange, y2 \in CornerRange :
          call.op = "__init__" /\ CallGetSlice(x1, y1, x2, y2)
    \/ \E x \in CornerRange, y \in CornerRange, v \in Val :
          proxy.exists /\ CallSetItem(x, y, v) /\ OneLive(grid')
    \/ \E lx \in SliceRange, ly \in SliceRange : CallProxyGetItem(lx, ly)
    \/ \E lx \in SliceRange, ly \in SliceRange, v \in Val :
          CallProxySetItem(lx, ly, v) /\ OneLive(grid')

SpecSlice == InitSlice /\ [][NextSlice]_vars

(***************************************************************************)
(* SpecStale: a Grid, slicing with any corners, the parent's destruction   *)
(* and accesses through the proxy that outlives it                         *)
(***************************************************************************)
InitStale == InitOf("Grid", SliceDims, FALSE)

NextStale ==
    \/ \E x1 \in SliceRange, y1 \in SliceRange,
          x2 \in SliceRange, y2 \in SliceRange :
          call.op = "__init__" /\ CallGetSlice(x1, y1, x2, y2)
    \/ proxy.exists /\ DelGrid
    \/ \E lx \in SliceRange, ly \in SliceRange :
          ~alive /\ CallProxyGetItem(lx, ly)
    \/ \E lx \in SliceRange, ly \in SliceRange, v \in Val :
          ~alive /\ CallProxySetItem(lx, ly, v)

SpecStale == InitStale /\ [][NextStale]_vars

(***************************************************************************)
(* SpecTorusSlice: a Grid or a Torus g and sub = g[x1:y1, x2:y2] written   *)
(* as the subscript it is, with any corners                                *)
(***************************************************************************)
\* sub = g[x1:y1, x2:y2] through the __getitem__ of g's class
CallGetItemSlice(x1, y1, x2, y2) ==
    /\ alive
    /\ call' = Call("__getitem__slice", x1, y1, x2, y2, 0)
    /\ LET r == GetItemSlice(cls, width, height, x1, y1, x2, y2)
       IN  ret' = r.ret /\ proxy' = IF r.ret.exc = "none" THEN r.proxy ELSE proxy
    /\ UNCHANGED <<cls, width, height, grid, other, alive>>
    /\ UNCHANGED <<coords, heapVars>>

InitTorusSlice ==
    InitOf("Grid", SliceDims, TRUE) \/ InitOf("Torus", SliceDims, TRUE)

NextTorusSlice ==
    \E x1 \in SliceRange, y1 \in SliceRange,
       x2 \in SliceRange, y2 \in SliceRange :
       call.op = "__init__" /\ CallGetItemSlice(x1, y1, x2, y2)

SpecTorusSlice == InitTorusSlice /\ [][NextTorusSlice]_vars

(***************************************************************************)
(* SpecCoords: a Grid (of any dimensions, empty ones included) or a Torus  *)
(* g, reads and writes of its cells, and g.coordinates                     *)
(***************************************************************************)
\* dimensions of a grid that may have no cell at all
CoordDims == 0..MaxDim

\* g.coordinates; the call records in v whether the cached list was served
CallCoordinates ==
    /\ alive
    /\ call' = Call("coordinates", 0, 0, 0, 0,
                    IF coords.cached /\ coords.list # <<>> THEN 1 ELSE 0)
    /\ LET r == GridCoordinates(width, height, coords)
       IN  ret' = r.ret /\ coords' = r.coords
    /\ UNCHANGED <<cls, width, height, grid, other, proxy, alive>>
    /\ UNCHANGED heapVars

InitCoords ==
    InitOf("Grid", CoordDims, FALSE) \/ InitOf("Torus", Dims, FALSE)

NextCoords ==
    \/ \E x \in GridRange, y \in GridRange :
          x <= width /\ y <= height /\ CallGetItem(x, y)
    \/ \E x \in GridRange, y \in GridRange :
          x <= width /\ y <= height /\ CallSetItem(x, y, Alive)
    \/ CallCoordinates

SpecCoords == InitCoords /\ [][NextCoords]_vars

(***************************************************************************)
(* SpecConway: g = Grid.from_array(width, height, arr) of conway.py, reads *)
(* and writes of its cells                                                 *)
(***************************************************************************)
\* g[x, y] on conway.py's Grid
CallConwayGetItem(x, y) ==
    /\ alive
    /\ call' = Call("__getitem__", x, y, 0, 0, 0)
    /\ ret' = ConwayGetItem(width, height, grid, x, y)
    /\ UNCHANGED <<cls, width, height, grid, other, proxy, alive>>
    /\ UNCHANGED <<coords, heapVars>>

\* g[x, y] = v on conway.py's Grid
CallConwaySetItem(x, y, v) ==
    /\ alive
    /\ call' = Call("__setitem__", x, y, 0, 0, v)
    /\ LET r == ConwaySetItem(width, height, grid, x, y, v)
       IN  ret' = r.ret /\ grid' = r.grid
    /\ Live(grid') <= MaxLive
    /\ UNCHANGED <<cls, width, height, other, proxy, alive>>
    /\ UNCHANGED <<coords, heapVars>>

InitConway == InitOf("conway.Grid", Dims, TRUE)

NextConway ==
    \/ \E x \in GridRange, y \in GridRange :
          x <= width /\ y <= height /\ CallConwayGetItem(x, y)
    \/ \E x \in GridRange, y \in GridRange, v \in Val :
          x <= width /\ y <= height /\ CallConwaySetItem(x, y, v)

SpecConway == InitConway /\ [][NextConway]_vars

(***************************************************************************)
(* SpecLife: a Grid world g of dead and live cells, neighbours(g, c),      *)
(* r = step(g), then h = step(r) or one write to g or to r                 *)
(***************************************************************************)
\* g = Grid.from_array(width, height, arr) for any array of dead and live
\* cells
InitWorld(c, dims) ==
    /\ NoSingleGrid
    /\ \E w \in dims, h \in dims :
          /\ w * h <= MaxCells
          /\ \E arr \in [1..(w * h) -> Cells] :
                /\ heap = <<arr>>
                /\ env = [NoEnv EXCEPT !["g"] = GridObj(c, w, h, 1)]
    /\ gen = NoGen
    /\ yielded = <<>>
    /\ call = ObjCall("from_array", "g", 0, 0, None)
    /\ ret = ReturnsNothing

\* neighbours(g, Coordinate(x, y))
CallNeighbours(x, y) ==
    /\ call' = ObjCall("neighbours", "g", x, y, None)
    /\ ret' = Neighbours(env["g"], heap[env["g"].grid], x, y)
    /\ UNCHANGED <<gridVars, heapVars>>

\* dst = step(src)
CallStep(src, dst) ==
    /\ env[src] # NoGrid
    /\ env[dst] = NoGrid
    /\ call' = ObjCall("step", src, 0, 0, None)
    /\ LET s == Step(heap, env[src])
       IN  /\ heap' = s.heap
           /\ ret' = IF s.ret.exc = "none" THEN ReturnsNothing ELSE s.ret
           /\ env' = IF s.ret.exc = "none"
                     THEN [env EXCEPT ![dst] = s.ret.val[1]] ELSE env
    /\ UNCHANGED <<gridVars, gen, yielded>>

\* n[x, y] = v for the grid bound to n
CallWrite(n, x, y, v) ==
    /\ env[n] # NoGrid
    /\ call' = ObjCall("__setitem__", n, x, y, v)
    /\ LET o == env[n]
           r == SetItem(o.cls, o.width, o.height, heap[o.grid], x, y, v)
       IN  ret' = r.ret /\ heap' = [heap EXCEPT ![o.grid] = r.grid]
    /\ UNCHANGED <<gridVars, env, gen, yielded>>

InitLife == InitWorld("Grid", Dims)

NextLife ==
    \/ \E x \in 0..(MaxDim - 1), y \in 0..(MaxDim - 1) :
          /\ x < env["g"].width /\ y < env["g"].height
          /\ call.op = "from_array"
          /\ CallNeighbours(x, y)
    \/ call.op = "from_array" /\ CallStep("g", "r")
    \/ call.op = "step" /\ CallStep("r", "h")
    \/ \E n \in {"g", "r"}, x \in 0..(MaxDim - 1), y \in 0..(MaxDim - 1),
          v \in Cells :
          /\ x < env["g"].width /\ y < env["g"].height
          /\ call.op = "step"
          /\ CallWrite(n, x, y, v)

SpecLife == InitLife /\ [][NextLife]_vars

(***************************************************************************)
(* SpecGen: a Grid seed g, gen = generations(num, g), and a consumer that  *)
(* calls next(gen) until the generator is exhausted, collecting the pairs  *)
(***************************************************************************)
\* gen = generations(num, g)
CallGenerations(num) ==
    /\ gen = NoGen
    /\ gen' = NewGenerator(num, env["g"])
    /\ call' = ObjCall("generations", "g", 0, 0, IntVal(num))
    /\ ret' = ReturnsNothing
    /\ UNCHANGED <<gridVars, heap, env, yielded>>

\* next(gen), the pair it yields appended to the consumer's list
CallNext ==
    /\ gen.pc \in {"created", "yielded"}
    /\ call' = ObjCall("next", "g", 0, 0, None)
    /\ LET r == GenNext(heap, gen)
       IN  /\ heap' = r.heap
           /\ gen' = r.gen
           /\ yielded' = yielded \o r.out
           /\ ret' = IF r.exc = "none" THEN ReturnsNothing ELSE Raises(r.exc)
    /\ UNCHANGED <<gridVars, env>>

InitGen == InitWorld("Grid", Dims)

NextGen ==
    \/ \E num \in 0..MaxGen : CallGenerations(num)
    \/ CallNext

SpecGen == InitGen /\ [][NextGen]_vars

(***************************************************************************)
(* SpecGenWrites: a Grid seed g, gen = generations(num, g), a consumer     *)
(* calling next(gen), and one write by the caller: to the seed before the  *)
(* first next(gen), or to the grid that was yielded last.  The caller      *)
(* binds r to the grid it writes to and keeps h = Grid.copy(r) taken just  *)
(* before the write.                                                       *)
(***************************************************************************)
\* r = <the seed, or the grid of the last pair yielded>; h = Grid.copy(r);
\* r[x, y] = v, for a v the cell does not hold yet
CallKeepAndWrite(x, y, v) ==
    /\ gen.pc \in {"created", "yielded"}
    /\ env["r"] = NoGrid
    /\ LET o == IF gen.pc = "created" THEN env["g"]
                ELSE yielded[Len(yielded)].world
           c == GridCopy("Grid", heap, o)
           r == SetItem(o.cls, o.width, o.height, c.heap[o.grid], x, y, v)
       IN  /\ Cell(heap, o, x, y) # Returns(v)
           /\ env' = [env EXCEPT !["r"] = o, !["h"] = c.obj]
           /\ heap' = [c.heap EXCEPT ![o.grid] = r.grid]
           /\ ret' = r.ret
    /\ call' = ObjCall("__setitem__", "r", x, y, v)
    /\ UNCHANGED <<gridVars, gen, yielded>>

InitGenWrites == InitWorld("Grid", SliceDims)

NextGenWrites ==
    \/ \E num \in 0..MaxGen : CallGenerations(num)
    \/ CallNext
    \/ \E x \in 0..(MaxDim - 1), y \in 0..(MaxDim - 1), v \in Cells :
          /\ x < env["g"].width /\ y < env["g"].height
          /\ CallKeepAndWrite(x, y, v)

SpecGenWrites == InitGenWrites /\ [][NextGenWrites]_vars

(***************************************************************************)
(* SpecTorusLife: a Torus world g, r = step(g), and gen =                  *)
(* generations(num, g) with its consumer                                   *)
(***************************************************************************)
InitTorusLife == InitWorld("Torus", Dims)

NextTorusLife ==
    \/ call.op = "from_array" /\ CallStep("g", "r")
    \/ \E num \in 0..MaxGen : call.op = "from_array" /\ CallGenerations(num)
    \/ CallNext

SpecTorusLife == InitTorusLife /\ [][NextTorusLife]_vars

(***************************************************************************)
(* SpecInts: a Grid world g whose cells are any of 0, 1 and 2, with        *)
(* neighbours(g, c) and r = step(g)                                        *)
(***************************************************************************)
\* cell values that are not only dead or live
IntCells == {IntVal(Dead), IntVal(Alive), IntVal(Alive + Alive)}

\* the number of cells of the list l that are not dead (bounds the
\* exploration)
NonZero(l) == Cardinality({i \in 1..Len(l) : l[i] # IntVal(Dead)})

\* g = Grid.from_array(width, height, arr) for any array of such cells
InitInts ==
    /\ NoSingleGrid
    /\ \E w \in Dims, h \in Dims :
          /\ w * h <= MaxCells
          /\ \E arr \in [1..(w * h) -> IntCells] :
                /\ NonZero(arr) <= MaxLive + 1
                /\ heap = <<arr>>
                /\ env = [NoEnv EXCEPT !["g"] = GridObj("Grid", w, h, 1)]
    /\ gen = NoGen
    /\ yielded = <<>>
    /\ call = ObjCall("from_array", "g", 0, 0, None)
    /\ ret = ReturnsNothing

NextInts ==
    \/ \E x \in 0..(MaxDim - 1), y \in 0..(MaxDim - 1) :
          /\ x < env["g"].width /\ y < env["g"].height
          /\ call.op = "from_array"
          /\ CallNeighbours(x, y)
    \/ call.op = "from_array" /\ CallStep("g", "r")

SpecInts == InitInts /\ [][NextInts]_vars

(***************************************************************************)
(* SpecArith: two Grids g and h of any dimensions, r = g + h and r = g - h *)
(***************************************************************************)
\* from_array arrays with at most one live cell, as int values
IntArrays(n) == {[i \in 1..n |-> IntVal(arr[i])] : arr \in InitArrays(n)}

\* g = Grid.from_array(w, h, arr); h = Grid.from_array(w2, h2, arr2)
InitArith ==
    /\ NoSingleGrid
    /\ \E w \in Dims, h \in Dims :
          /\ w * h <= MaxCells
          /\ \E w2 \in Dims, h2 \in Dims :
                /\ w2 * h2 <= MaxCells
                /\ \E arr \in IntArrays(w * h) :
                      \E arr2 \in IntArrays(w2 * h2) :
                         /\ heap = <<arr, arr2>>
                         /\ env = [NoEnv EXCEPT
                                      !["g"] = GridObj("Grid", w, h, 1),
                                      !["h"] = GridObj("Grid", w2, h2, 2)]
    /\ gen = NoGen
    /\ yielded = <<>>
    /\ call = ObjCall("from_array", "g", 0, 0, None)
    /\ ret = ReturnsNothing

\* r = g + h
CallAdd ==
    /\ env["r"] = NoGrid
    /\ call' = ObjCall("__add__", "g", 0, 0, None)
    /\ LET s == GridAdd(heap, env["g"], env["h"])
       IN  /\ heap' = s.heap
           /\ ret' = IF s.ret.exc = "none" THEN ReturnsNothing ELSE s.ret
           /\ env' = IF s.ret.exc = "none"
                     THEN [env EXCEPT !["r"] = s.ret.val[1]] ELSE env
    /\ UNCHANGED <<gridVars, gen, yielded>>

\* r = g - h
CallSub ==
    /\ env["r"] = NoGrid
    /\ call' = ObjCall("__sub__", "g", 0, 0, None)
    /\ LET s == GridSub(heap, env["g"], env["h"])
       IN  /\ heap' = s.heap
           /\ ret' = IF s.ret.exc = "none" THEN ReturnsNothing ELSE s.ret
           /\ env' = IF s.ret.exc = "none"
                     THEN [env EXCEPT !["r"] = s.ret.val[1]] ELSE env
    /\ UNCHANGED <<gridVars, gen, yielded>>

NextArith ==
    \/ call.op = "from_array" /\ CallAdd
    \/ call.op = "from_array" /\ CallSub

SpecArith == InitArith /\ [][NextArith]_vars

(***************************************************************************)
(* SpecCopy: a Grid g whose cells are ints or mutable values, r =          *)
(* Grid.copy(g), then one write to a cell, or one mutation of the value    *)
(* held in a cell, of g or of r                                            *)
(***************************************************************************)
\* g = Grid(w, h) in which the cells of `mutable` have been set to a mutable
\* value each: [0], or [[0]] when `nested`.  Container i is the inner list
\* of cell i, container n + i the value of cell i, container 2n + 1 the
\* _grid list.
MutableGrid(w, h, mutable, nested) ==
    LET n == w * h
    IN  [i \in 1..(2 * n + 1) |->
            IF i <= n THEN <<IntVal(Dead)>>
            ELSE IF i <= 2 * n
            THEN (IF nested THEN <<RefVal(i - n)>> ELSE <<IntVal(Dead)>>)
            ELSE [j \in 1..n |-> IF j \in mutable THEN RefVal(n + j)
                                 ELSE IntVal(Dead)]]

InitCopy ==
    /\ NoSingleGrid
    /\ \E w \in Dims, h \in Dims :
          /\ w * h <= MaxCells
          /\ \E mutable \in SUBSET (1..(w * h)), nested \in BOOLEAN :
                /\ Cardinality(mutable) <= MaxLive
                /\ heap = MutableGrid(w, h, mutable, nested)
                /\ env = [NoEnv EXCEPT
                             !["g"] = GridObj("Grid", w, h, 2 * w * h + 1)]
    /\ gen = NoGen
    /\ yielded = <<>>
    /\ call = ObjCall("__init__", "g", 0, 0, None)
    /\ ret = ReturnsNothing

\* r = Grid.copy(g)
CallCopy ==
    /\ env["r"] = NoGrid
    /\ call' = ObjCall("copy", "g", 0, 0, None)
    /\ LET c == GridCopy("Grid", heap, env["g"])
       IN  heap' = c.heap /\ env' = [env EXCEPT !["r"] = c.obj]
    /\ ret' = ReturnsNothing
    /\ UNCHANGED <<gridVars, gen, yielded>>

\* n[x, y][0] = v
CallMutateCell(n, x, y, v) ==
    /\ env[n] # NoGrid
    /\ call' = ObjCall("mutate", n, x, y, v)
    /\ LET r == MutateCell(heap, env[n], x, y, v)
       IN  heap' = r.heap /\ ret' = r.ret
    /\ UNCHANGED <<gridVars, env, gen, yielded>>

\* n[x, y][0][0] = v
CallMutateNested(n, x, y, v) ==
    /\ env[n] # NoGrid
    /\ call' = ObjCall("mutate nested", n, x, y, v)
    /\ LET r == MutateNested(heap, env[n], x, y, v)
       IN  heap' = r.heap /\ ret' = r.ret
    /\ UNCHANGED <<gridVars, env, gen, yielded>>

NextCopy ==
    \/ call.op = "__init__" /\ CallCopy
    \/ \E n \in {"g", "r"}, x \in 0..(MaxDim - 1), y \in 0..(MaxDim - 1) :
          /\ x < env["g"].width /\ y < env["g"].height
          /\ call.op = "copy"
          /\ \/ CallWrite(n, x, y, IntVal(Alive))
             \/ CallMutateCell(n, x, y, IntVal(Alive))
             \/ CallMutateNested(n, x, y, IntVal(Alive))

SpecCopy == InitCopy /\ [][NextCopy]_vars

(***************************************************************************)
(* SpecDefault: g = Grid(width, height, value=d) for a mutable default d,  *)
(* then mutations of the values held in the cells of g                     *)
(***************************************************************************)
\* d = [0], or d = [[0]] when `nested`: container 1 is the inner list,
\* container 2 is d
DefaultValue(nested) ==
    << <<IntVal(Dead)>>, IF nested THEN <<RefVal(1)>> ELSE <<IntVal(Dead)>> >>

InitDefault ==
    /\ NoSingleGrid
    /\ \E w \in Dims, h \in Dims, nested \in BOOLEAN :
          /\ w * h <= MaxCells
          /\ LET r == GridNew("Grid", DefaultValue(nested), w, h, RefVal(2))
             IN  /\ heap = r.heap
                 /\ env = [NoEnv EXCEPT !["g"] = r.obj, !["d"] = ValObj(2)]
    /\ gen = NoGen
    /\ yielded = <<>>
    /\ call = ObjCall("__init__", "g", 0, 0, RefVal(2))
    /\ ret = ReturnsNothing

\* the number of cells of o whose value holds a live first item
LiveValues(hp, o) ==
    Cardinality({i \in 1..Len(hp[o.grid]) :
                    /\ hp[o.grid][i].k = "ref"
                    /\ hp[hp[o.grid][i].v] = <<IntVal(Alive)>>})

NextDefault ==
    \/ \E x \in 0..(MaxDim - 1), y \in 0..(MaxDim - 1) :
          /\ x < env["g"].width /\ y < env["g"].height
          /\ CallMutateCell("g", x, y, IntVal(Alive))
          /\ LiveValues(heap', env["g"]) <= MaxLive
    \/ \E x \in 0..(MaxDim - 1), y \in 0..(MaxDim - 1) :
          /\ x < env["g"].width /\ y < env["g"].height
          /\ CallMutateNested("g", x, y, IntVal(Alive))

SpecDefault == InitDefault /\ [][NextDefault]_vars

(***************************************************************************)
(* SpecArray: an array arr of any length, g = Grid.from_array(w, h, arr),  *)
(* then g.values, list(g) and g[x, y]                                      *)
(***************************************************************************)
InitArray ==
    /\ NoSingleGrid
    /\ \E n \in 0..MaxCells :
          \E arr \in IntArrays(n) :
             /\ heap = <<arr>>
             /\ env = [NoEnv EXCEPT !["arr"] = ValObj(1)]
    /\ gen = NoGen
    /\ yielded = <<>>
    /\ call = ObjCall("array", "arr", 0, 0, None)
    /\ ret = ReturnsNothing

\* g = Grid.from_array(w, h, arr, copy)
CallFromArray(w, h, copy) ==
    /\ env["g"] = NoGrid
    /\ call' = ObjCall("from_array", "g", w, h, None)
    /\ LET r == FromArray("Grid", heap, w, h, env["arr"].grid, copy)
       IN  /\ heap' = r.heap
           /\ ret' = IF r.ret.exc = "none" THEN ReturnsNothing ELSE r.ret
           /\ env' = IF r.ret.exc = "none"
                     THEN [env EXCEPT !["g"] = r.ret.val[1]] ELSE env
    /\ UNCHANGED <<gridVars, gen, yielded>>

\* g.values
CallValues ==
    /\ env["g"] # NoGrid
    /\ call' = ObjCall("values", "g", 0, 0, None)
    /\ LET r == Values(heap, env["g"])
       IN  heap' = r.heap /\ ret' = r.ret
    /\ UNCHANGED <<gridVars, env, gen, yielded>>

\* list(g)
CallList ==
    /\ env["g"] # NoGrid
    /\ call' = ObjCall("list", "g", 0, 0, None)
    /\ LET r == ListOf(heap, env["g"])
       IN  heap' = r.heap /\ ret' = r.ret
    /\ UNCHANGED <<gridVars, env, gen, yielded>>

\* g[x, y]
CallRead(x, y) ==
    /\ env["g"] # NoGrid
    /\ call' = ObjCall("__getitem__", "g", x, y, None)
    /\ ret' = Cell(heap, env["g"], x, y)
    /\ UNCHANGED <<gridVars, heapVars>>

NextArray ==
    \/ \E w \in Dims, h \in Dims, copy \in BOOLEAN :
          w * h <= MaxCells /\ CallFromArray(w, h, copy)
    \/ call.op = "from_array" /\ CallValues
    \/ call.op = "from_array" /\ CallList
    \/ \E x \in 0..(MaxDim - 1), y \in 0..(MaxDim - 1) :
          /\ x < env["g"].width /\ y < env["g"].height
          /\ call.op = "from_array"
          /\ CallRead(x, y)

SpecArray == InitArray /\ [][NextArray]_vars

(***************************************************************************)
(* SpecItems: a Grid or a Torus g, writes to it, g.items() and             *)
(* list(g.iter_items())                                                    *)
(***************************************************************************)
\* g.items()
CallItems ==
    /\ alive
    /\ call' = Call("items", 0, 0, 0, 0, 0)
    /\ ret' = Items(width, height, grid)
    /\ coords' = GridCoordinates(width, height, coords).coords
    /\ UNCHANGED <<cls, width, height, grid, other, proxy, alive>>
    /\ UNCHANGED heapVars

\* list(g.iter_items())
CallIterItems ==
    /\ alive
    /\ call' = Call("iter_items", 0, 0, 0, 0, 0)
    /\ ret' = IterItems(cls, width, height, grid)
    /\ coords' = GridCoordinates(width, height, coords).coords
    /\ UNCHANGED <<cls, width, height, grid, other, proxy, alive>>
    /\ UNCHANGED heapVars

InitItems == InitOf("Grid", Dims, TRUE) \/ InitOf("Torus", Dims, TRUE)

NextItems ==
    \/ \E x \in 0..(MaxDim - 1), y \in 0..(MaxDim - 1), v \in Val :
          x < width /\ y < height /\ CallSetItem(x, y, v)
    \/ CallItems
    \/ CallIterItems

SpecItems == InitItems /\ [][NextItems]_vars

(***************************************************************************)
(*                              Properties                                 *)
(***************************************************************************)
\* (x, y) lies in [0, width) x [0, height)
InBounds(x, y) == 0 <= x /\ x < width /\ 0 <= y /\ y < height

AccessorOps == {"__getitem__", "__setitem__", "get"}

\* C1: on a Grid of any positive width and height, g[x, y] = v at an in-range
\* coordinate succeeds, a following g[x, y] returns v, and the value read at
\* every other valid coordinate is what it was before the write.
C1_SetThenGet ==
    [][ /\ (call'.op = "__setitem__" /\ InBounds(call'.x, call'.y)) =>
            /\ ret' = ReturnsNothing
            /\ GetItem(cls, width, height, grid', call'.x, call'.y)
                   = Returns(call'.v)
            /\ \A c \in Coordinates(width, height) :
                   c # <<call'.x, call'.y>> =>
                      GetItem(cls, width, height, grid', c[1], c[2])
                         = GetItem(cls, width, height, grid, c[1], c[2])
        /\ (/\ call.op = "__setitem__" /\ InBounds(call.x, call.y)
            /\ call'.op = "__getitem__"
            /\ call'.x = call.x /\ call'.y = call.y) =>
               ret' = Returns(call.v)
      ]_vars

\* a read on a non-square grid, off both axes' origin, returns the live value
\* an earlier write stored there
C1_Witness ==
    /\ cls = "Grid" /\ width # height
    /\ call.op = "__getitem__" /\ call.x > 0 /\ call.y > 0
    /\ InBounds(call.x, call.y)
    /\ ret = Returns(Alive)

\* C2: on a Grid, g[x, y] and g[x, y] = v at a coordinate outside
\* [0, width) x [0, height) raise KeyError, g.get(x, y, default) returns
\* default, and none of them changes a cell.
C2_InvalidCoordinate ==
    [][ (call'.op \in AccessorOps /\ ~InBounds(call'.x, call'.y)) =>
            /\ grid' = grid
            /\ ret' = IF call'.op = "get" THEN Returns(call'.v)
                      ELSE Raises("KeyError")
      ]_vars

\* g.get(width, y, default) just past the right edge of a grid that holds a
\* live cell returned the default
C2_Witness ==
    /\ cls = "Grid"
    /\ call.op = "get" /\ call.x = width /\ 0 <= call.y /\ call.y < height
    /\ call.v = Alive /\ ret = Returns(Alive)
    /\ Live(grid) = 1 /\ grid[1] = Dead

\* the grid g equals `other`: same dimensions, same value at every coordinate
SameDimsAndValues ==
    /\ width = other.width
    /\ height = other.height
    /\ \A c \in Coordinates(width, height) :
          GetCoordinate(width, height, grid, c[1], c[2])
             = GetCoordinate(other.width, other.height, other.grid, c[1], c[2])

\* C3: a == b is true if and only if a and b have the same (width, height)
\* and the same value at every coordinate; grids of different dimensions are
\* never equal.
C3_EqIffSameDimsAndValues ==
    call.op = "__eq__" => (ret = Returns(TRUE) <=> SameDimsAndValues)

\* C4: on a Torus, for every in-range (x, y) and all integers k, m, a read at
\* (x + k*width, y + m*height) returns what a read at (x, y) returns, and a
\* write at the shifted coordinate is read back at (x, y).
C4_TorusWraps ==
    \A x \in 0..(width - 1), y \in 0..(height - 1), k \in Shifts, m \in Shifts :
       (call.x = x + k * width /\ call.y = y + m * height) =>
          /\ call.op = "__getitem__" =>
                ret.exc = "none" /\ ret = GetItem(cls, width, height, grid, x, y)
          /\ call.op = "__setitem__" =>
                /\ ret.exc = "none"
                /\ GetItem(cls, width, height, grid, x, y) = Returns(call.v)

\* C5: on a Torus of any positive width and height, a get or set at any
\* integer coordinate pair never fails: the coordinate resolves to a storage
\* index inside [0, width*height).
C5_TorusNeverFails ==
    call.op \in {"__getitem__", "__setitem__"} =>
       /\ ret.exc = "none"
       /\ TorusIndex(width, height, call.x, call.y) \in 0..(width * height - 1)

\* C6: a Torus stores row-major like a Grid: a read at an in-range (x, y)
\* returns the element y*width + x of the flat array, which is what a Grid
\* over the same array returns, and two distinct in-range coordinates never
\* address the same cell.
C6_TorusRowMajor ==
    (call.op = "__getitem__" /\ InBounds(call.x, call.y)) =>
       /\ ret = Returns(ListItem(grid, call.y * width + call.x))
       /\ ret = GetCoordinate(width, height, grid, call.x, call.y)
       /\ \A c \in Coordinates(width, height), d \in Coordinates(width, height) :
             c # d => TorusIndex(width, height, c[1], c[2])
                         # TorusIndex(width, height, d[1], d[2])

ProxyOps == {"proxy.__getitem__", "proxy.__setitem__"}

\* the local coordinate (lx, ly) lies in the rectangle of proxy p
InsideSlice(p, lx, ly) ==
    lx >= 0 /\ ly >= 0 /\ p.x1 + lx <= p.x2 /\ p.y1 + ly <= p.y2

\* C7: a get or set through the proxy at a local coordinate with a negative
\* component, or whose translation passes x2 or y2, raises KeyError and
\* leaves the parent unchanged, so that no successful proxy access touches a
\* parent cell outside the rectangle.
C7_ProxyBounds ==
    [][ (/\ call'.op \in ProxyOps
         /\ alive'
         /\ ~InsideSlice(proxy', call'.x, call'.y)) =>
            ret' = Raises("KeyError") /\ grid' = grid
      ]_vars

\* C8: the proxy is a view: at every local coordinate inside its rectangle a
\* read through the proxy is a read of the parent at (x1+lx, y1+ly) and a
\* write through the proxy is that write on the parent, whatever writes were
\* made before through the proxy or directly on the parent.
C8_ProxyIsView ==
    [][ (proxy'.exists /\ alive') =>
           /\ (/\ call'.op = "proxy.__getitem__"
               /\ InsideSlice(proxy', call'.x, call'.y)) =>
                  ret' = GetItem(cls, width, height, grid,
                                 proxy'.x1 + call'.x, proxy'.y1 + call'.y)
           /\ (/\ call'.op = "proxy.__setitem__"
               /\ InsideSlice(proxy', call'.x, call'.y)) =>
                  [ret |-> ret', grid |-> grid']
                     = SetItem(cls, width, height, grid,
                               proxy'.x1 + call'.x, proxy'.y1 + call'.y,
                               call'.v)
      ]_vars

\* a read through a proxy whose corner is off the parent's origin returns the
\* live value stored in the parent's cell (x1, y1)
C8_Witness ==
    /\ proxy.exists /\ alive
    /\ proxy.x1 > 0 /\ proxy.y1 > 0
    /\ call.op = "proxy.__getitem__" /\ call.x = 0 /\ call.y = 0
    /\ ret = Returns(Alive)
    /\ GetItem(cls, width, height, grid, proxy.x1, proxy.y1) = Returns(Alive)

\* C9 as stated: once the parent is destroyed, every get or set through the
\* proxy, at any local coordinate, raises ReferenceError and no other error.
C9_StaleAlwaysReferenceError ==
    (~alive /\ call.op \in ProxyOps) => ret = Raises("ReferenceError")

\* C9 as amended: once the parent is destroyed, every get or set through the
\* proxy fails and returns no value: with ReferenceError at every local
\* coordinate inside the proxy's rectangle, and with ReferenceError or
\* KeyError at a local coordinate outside it.
C9_StaleProxyFails ==
    (~alive /\ call.op \in ProxyOps) =>
       /\ ret.exc \in {"ReferenceError", "KeyError"}
       /\ ret.val = <<>>
       /\ InsideSlice(proxy, call.x, call.y) => ret.exc = "ReferenceError"

\* a write through the proxy of a destroyed parent, inside the rectangle,
\* raised ReferenceError
C9_Witness ==
    /\ ~alive /\ proxy.exists
    /\ call.op = "proxy.__setitem__"
    /\ InsideSlice(proxy, call.x, call.y)
    /\ ret = Raises("ReferenceError")

\* corners that are ordered component-wise and lie inside the grid
WellFormedSlice(x1, y1, x2, y2) ==
    /\ 0 <= x1 /\ x1 <= x2 /\ x2 <= width - 1
    /\ 0 <= y1 /\ y1 <= y2 /\ y2 <= height - 1

\* C10: g[x1:y1, x2:y2] returns a proxy only for corners ordered
\* component-wise inside the grid, raises ValueError when x1 > x2 or y1 > y2
\* and KeyError when a corner component is negative or beyond the grid, so
\* every proxy slicing returns has topleft <= bottomright component-wise
\* with both corners inside the parent.
C10_SliceValidation ==
    /\ call.op = "__get_slice__" =>
          /\ ret.exc = "none"
                <=> WellFormedSlice(call.x, call.y, call.x2, call.y2)
          /\ (call.x > call.x2 \/ call.y > call.y2) => ret.exc = "ValueError"
          /\ (/\ ~(call.x > call.x2 \/ call.y > call.y2)
              /\ ~WellFormedSlice(call.x, call.y, call.x2, call.y2)) =>
                 ret.exc = "KeyError"
    /\ proxy.exists => WellFormedSlice(proxy.x1, proxy.y1, proxy.x2, proxy.y2)

(***************************************************************************)
(*                  Properties of the Game of Life                         *)
(***************************************************************************)
\* the value the Grid o holds at the in-range coordinate (x, y), row-major
At(o, x, y) == heap[o.grid][y * o.width + x + 1]

\* the world g
World == env["g"]

\* the eight neighbour offsets
Offsets == {d \in {0 - 1, 0, 1} \X {0 - 1, 0, 1} : d # <<0, 0>>}

\* the number of live cells among the neighbours of (x, y), each offset taken
\* modulo width and height
WrappedCount(o, x, y) ==
    Cardinality({d \in Offsets :
        At(o, (x + d[1]) % o.width, (y + d[2]) % o.height) = IntVal(Alive)})

\* the number of live cells among the neighbours of (x, y) that lie inside
\* the grid
InsideCount(o, x, y) ==
    Cardinality({d \in Offsets :
        /\ 0 <= x + d[1] /\ x + d[1] < o.width
        /\ 0 <= y + d[2] /\ y + d[2] < o.height
        /\ At(o, x + d[1], y + d[2]) = IntVal(Alive)})

\* C11 as stated: on a Grid (not a Torus), neighbours(g, c) counts the cells
\* at the 8 neighbour offsets taken modulo width and height, so that a cell
\* on one edge sees the cells on the opposite edge.
C11_NeighboursWrap ==
    call.op = "neighbours" =>
       ret = Returns(WrappedCount(World, call.x, call.y))

\* C11 as amended: on a Grid (not a Torus), neighbours(g, c) counts the live
\* cells at those of the 8 neighbour offsets that lie inside the grid; an
\* offset that falls off the grid contributes nothing.
C11_NeighboursInside ==
    call.op = "neighbours" =>
       ret = Returns(InsideCount(World, call.x, call.y))

\* neighbours at the left edge of a grid at least 3 wide found nothing,
\* although the cell on the opposite edge of the same row is live
C11_Witness ==
    /\ call.op = "neighbours" /\ call.x = 0
    /\ World.cls = "Grid" /\ World.width >= 3
    /\ At(World, World.width - 1, call.y) = IntVal(Alive)
    /\ ret = Returns(0)

\* the blinker: a horizontal and a vertical line of three live cells on a
\* 3x3 grid, as row-major arrays
Line(live) == [i \in 1..9 |-> IF i \in live THEN IntVal(Alive) ELSE IntVal(Dead)]
Horizontal == Line({4, 5, 6})
Vertical == Line({2, 5, 8})

\* the grid bound to n is a 3x3 Grid
IsGrid3x3(o) == o.cls = "Grid" /\ o.width = 3 /\ o.height = 3

\* C12: on a 3x3 Grid, step takes [[0,0,0],[1,1,1],[0,0,0]] to
\* [[0,1,0],[0,1,0],[0,1,0]], and stepping that result once more gives the
\* horizontal line again.
C12_Blinker ==
    [][ (/\ call'.op = "step"
         /\ IsGrid3x3(World)
         /\ heap[World.grid] = Horizontal) =>
            /\ ret' = ReturnsNothing
            /\ call'.obj = "g" =>
                  IsGrid3x3(env'["r"]) /\ heap'[env'["r"].grid] = Vertical
            /\ call'.obj = "r" =>
                  /\ heap[env["r"].grid] = Vertical
                  /\ IsGrid3x3(env'["h"])
                  /\ heap'[env'["h"].grid] = Horizontal
      ]_vars

\* the horizontal line has been stepped twice and is horizontal again
C12_Witness ==
    /\ call.op = "step" /\ call.obj = "r"
    /\ IsGrid3x3(World) /\ heap[World.grid] = Horizontal
    /\ heap[env["r"].grid] = Vertical
    /\ heap[env["h"].grid] = Horizontal

\* the coordinates of the grid object o
CoordsOf(o) == Coordinates(o.width, o.height)

\* C13: for every grid g of cells in {0,1} and every coordinate c, with
\* n = neighbours(g, c), step(g)[c] is 1 exactly when g[c] is 1 and n is 2 or
\* 3, or g[c] is 0 and n is 3, and 0 otherwise: every coordinate of the
\* result is determined from the old grid only.
C13_LifeRule ==
    [][ (call'.op = "step" /\ call'.obj = "g") =>
           /\ ret' = ReturnsNothing
           /\ \A c \in CoordsOf(World) :
                 LET n == Neighbours(World, heap[World.grid], c[1], c[2]).val[1]
                     old == At(World, c[1], c[2])
                     new == Cell(heap', env'["r"], c[1], c[2])
                 IN  /\ new \in {Returns(IntVal(0)), Returns(IntVal(1))}
                     /\ new = Returns(IntVal(1)) <=>
                           \/ old = IntVal(1) /\ n \in {2, 3}
                           \/ old = IntVal(0) /\ n = 3
      ]_vars

\* a step in which one cell was born, one died and one survived
C13_Witness ==
    /\ call.op = "step" /\ call.obj = "g"
    /\ \E b \in CoordsOf(World), d \in CoordsOf(World), s \in CoordsOf(World) :
          /\ At(World, b[1], b[2]) = IntVal(Dead)
          /\ At(env["r"], b[1], b[2]) = IntVal(Alive)
          /\ At(World, d[1], d[2]) = IntVal(Alive)
          /\ At(env["r"], d[1], d[2]) = IntVal(Dead)
          /\ At(World, s[1], s[2]) = IntVal(Alive)
          /\ At(env["r"], s[1], s[2]) = IntVal(Alive)

\* C14: step is pure: step(g) returns a new grid with the dimensions of g,
\* leaves every cell of g unchanged and shares no storage with g: a later
\* write to either grid is not visible in the other.
C14_StepPure ==
    [][ /\ (call'.op = "step" /\ call'.obj = "g") =>
            /\ env'["g"] = env["g"]
            /\ heap'[World.grid] = heap[World.grid]
            /\ env'["r"].width = World.width
            /\ env'["r"].height = World.height
            /\ Len(heap'[env'["r"].grid]) = World.width * World.height
            /\ env'["r"].grid # World.grid
        /\ (call'.op = "__setitem__" /\ env["r"] # NoGrid) =>
            \A n \in {"g", "r"} \ {call'.obj} :
               \A c \in CoordsOf(env[n]) :
                  Cell(heap', env'[n], c[1], c[2])
                     = Cell(heap, env[n], c[1], c[2])
      ]_vars

\* after r = step(g), a write to r changed the cell of r and g still holds
\* its own, different value there
C14_Witness ==
    /\ call.op = "__setitem__" /\ call.obj = "r"
    /\ ret = ReturnsNothing
    /\ Cell(heap, env["r"], call.x, call.y) = Returns(call.v)
    /\ Cell(heap, World, call.x, call.y) # Returns(call.v)

\* the cells of the grid object o, as the flat row-major list
CellsOf(hp, o) == hp[o.grid]

\* the grid objects a and b have the same dimensions and the same cells
SameGrid(hp, a, b) ==
    /\ a.width = b.width /\ a.height = b.height
    /\ CellsOf(hp, a) = CellsOf(hp, b)

\* C15: generations(count, seed), consumed to exhaustion, yields exactly
\* count pairs (i, grid_i), i = 0..count-1 in order, with grid_0 equal to
\* seed and grid_{i+1} equal to step(grid_i); generations(0, seed) yields
\* nothing; the seed holds the same cell values afterwards.
C15_Generations ==
    [][ /\ heap'[World.grid] = heap[World.grid]
        /\ env' = env
        /\ Len(yielded) <= Len(yielded') /\ Len(yielded') <= gen'.num
        /\ \A i \in 1..Len(yielded) :
              /\ yielded'[i] = yielded[i]
              /\ CellsOf(heap', yielded[i].world)
                    = CellsOf(heap, yielded[i].world)
        /\ Len(yielded') > Len(yielded) =>
              LET i == Len(yielded')
              IN  /\ i = Len(yielded) + 1
                  /\ yielded'[i].generation = i - 1
                  /\ i = 1 => SameGrid(heap', yielded'[i].world, World)
                  /\ i > 1 =>
                        \E s \in {Step(heap, yielded[i - 1].world)} :
                            /\ s.ret.exc = "none"
                            /\ yielded'[i].world.width = s.ret.val[1].width
                            /\ yielded'[i].world.height
                                  = s.ret.val[1].height
                            /\ CellsOf(heap', yielded'[i].world)
                                  = CellsOf(s.heap, s.ret.val[1])
        /\ gen'.pc = "done" =>
              /\ Len(yielded') = gen'.num
              /\ ret' = Raises("StopIteration")
      ]_vars

\* generations(MaxGen, seed) is exhausted after MaxGen pairs whose first two
\* grids differ
C15_Witness ==
    /\ gen.pc = "done" /\ gen.num = MaxGen
    /\ Len(yielded) = MaxGen
    /\ CellsOf(heap, yielded[1].world) # CellsOf(heap, yielded[2].world)
    /\ CellsOf(heap, yielded[1].world) = CellsOf(heap, World)

\* a + b or a - b, by the operator called
Combine(op, a, b) == IF op = "__add__" THEN a + b ELSE a - b

\* C16: for Grids g and h of equal (width, height), g + h and g - h are new
\* grids of those dimensions holding g[x,y] + h[x,y] (resp. g[x,y] - h[x,y])
\* at every coordinate, with g and h unchanged; when the dimensions differ
\* the operation fails and produces no grid.
C16_Arithmetic ==
    [][ call'.op \in {"__add__", "__sub__"} =>
          /\ env'["g"] = env["g"] /\ env'["h"] = env["h"]
          /\ heap'[env["g"].grid] = heap[env["g"].grid]
          /\ heap'[env["h"].grid] = heap[env["h"].grid]
          /\ IF env["g"].width = env["h"].width
                /\ env["g"].height = env["h"].height
             THEN /\ ret' = ReturnsNothing
                  /\ env'["r"].cls = "Grid"
                  /\ env'["r"].width = env["g"].width
                  /\ env'["r"].height = env["g"].height
                  /\ env'["r"].grid \notin {env["g"].grid, env["h"].grid}
                  /\ \A c \in CoordsOf(env["g"]) :
                        Cell(heap', env'["r"], c[1], c[2])
                           = Returns(IntVal(Combine(call'.op,
                                Cell(heap, env["g"], c[1], c[2]).val[1].v,
                                Cell(heap, env["h"], c[1], c[2]).val[1].v)))
             ELSE /\ ret'.exc # "none"
                  /\ env'["r"] = NoGrid
      ]_vars

\* g - h on non-square grids produced a cell holding -1
C16_Witness ==
    /\ call.op = "__sub__" /\ ret = ReturnsNothing
    /\ env["g"].width # env["g"].height
    /\ \E c \in CoordsOf(env["r"]) :
          /\ c[1] > 0 /\ c[2] > 0
          /\ Cell(heap, env["r"], c[1], c[2]) = Returns(IntVal(0 - 1))

(***************************************************************************)
(*              Properties of copies and mutable values                    *)
(***************************************************************************)
\* the value v with everything reachable from it, written out: an int as
\* itself, a container as its items between brackets
RECURSIVE Deep(_, _), DeepItems(_, _, _)
Deep(hp, v) ==
    IF v.k # "ref" THEN <<v>>
    ELSE <<[k |-> "open", v |-> 0]>> \o DeepItems(hp, hp[v.v], 1)
            \o <<[k |-> "close", v |-> 0]>>

DeepItems(hp, items, i) ==
    IF i > Len(items) THEN <<>>
    ELSE Deep(hp, items[i]) \o DeepItems(hp, items, i + 1)

\* what the grid object o holds at (x, y), with everything reachable from it
DeepCell(hp, o, x, y) == Deep(hp, Cell(hp, o, x, y).val[1])

\* C17: Grid.copy(g) returns a distinct grid that equals g (same dimensions,
\* same value at every coordinate); afterwards a write to the copy leaves g
\* unchanged and a write to g leaves the copy unchanged, also when the cell
\* values are mutable objects.
C17_CopyIsDeep ==
    [][ /\ call'.op = "copy" =>
            /\ env'["g"] = env["g"]
            /\ env'["r"].grid # env["g"].grid
            /\ env'["r"].width = env["g"].width
            /\ env'["r"].height = env["g"].height
            /\ \A c \in CoordsOf(env["g"]) :
                  /\ DeepCell(heap', env'["r"], c[1], c[2])
                        = DeepCell(heap, env["g"], c[1], c[2])
                  /\ DeepCell(heap', env["g"], c[1], c[2])
                        = DeepCell(heap, env["g"], c[1], c[2])
        /\ (/\ call'.op \in {"__setitem__", "mutate", "mutate nested"}
            /\ env["r"] # NoGrid) =>
               \A n \in {"g", "r"} \ {call'.obj} :
                  \A c \in CoordsOf(env[n]) :
                     DeepCell(heap', env'[n], c[1], c[2])
                        = DeepCell(heap, env[n], c[1], c[2])
      ]_vars

\* after r = Grid.copy(g), the value nested in a mutable cell of r was
\* mutated: the cell of r shows it and the cell of g does not
C17_Witness ==
    /\ call.op = "mutate nested" /\ call.obj = "r"
    /\ ret = ReturnsNothing
    /\ DeepCell(heap, env["r"], call.x, call.y)
          # DeepCell(heap, env["g"], call.x, call.y)
    /\ DeepCell(heap, env["g"], call.x, call.y)
          = <<[k |-> "open", v |-> 0], [k |-> "open", v |-> 0], IntVal(Dead),
              [k |-> "close", v |-> 0], [k |-> "close", v |-> 0]>>

\* C19: default values are per cell: after Grid(width, height, value=d) with
\* a mutable default d, a mutation made to the value held in one cell is
\* visible neither in another cell nor in d itself.
C19_DefaultPerCell ==
    [][ (call'.op \in {"mutate", "mutate nested"} /\ ret' = ReturnsNothing) =>
           /\ Deep(heap', RefVal(env["d"].grid)) = Deep(heap, RefVal(env["d"].grid))
           /\ \A c \in CoordsOf(env["g"]) :
                 c # <<call'.x, call'.y>> =>
                    DeepCell(heap', env["g"], c[1], c[2])
                       = DeepCell(heap, env["g"], c[1], c[2])
      ]_vars

\* the array handed to from_array
Arr == heap[env["arr"].grid]

\* C18: for every width, height and array arr with len(arr) = width*height,
\* Grid.from_array(width, height, arr).values equals arr in row-major order
\* and iterating the grid yields the elements of arr in the same order; when
\* len(arr) differs from width*height, from_array fails its assertion and
\* returns no grid.
C18_FromArrayRoundTrip ==
    [][ /\ call'.op = "from_array" =>
            IF Len(Arr) = call'.x * call'.y
            THEN /\ ret' = ReturnsNothing
                 /\ env'["g"].width = call'.x /\ env'["g"].height = call'.y
                 /\ \A c \in Coordinates(call'.x, call'.y) :
                       Cell(heap', env'["g"], c[1], c[2])
                          = Returns(Arr[c[2] * call'.x + c[1] + 1])
            ELSE ret' = Raises("AssertionError") /\ env'["g"] = NoGrid
        /\ call'.op \in {"values", "list"} =>
            /\ ret'.exc = "none"
            /\ heap'[ret'.val[1].v] = Arr
            /\ heap'[env["arr"].grid] = Arr
      ]_vars

\* g.values of a non-square grid built from an array whose live element lies
\* past the first row gave the array back
C18_Witness ==
    /\ call.op = "values" /\ ret.exc = "none"
    /\ env["g"].width # env["g"].height /\ env["g"].height > 1
    /\ heap[ret.val[1].v] = Arr
    /\ \E i \in 1..Len(Arr) : i > env["g"].width + 1 /\ Arr[i] = IntVal(Alive)

(***************************************************************************)
(*                     Properties of items                                 *)
(***************************************************************************)
\* the pairs ((x, y), value at (x, y)) for all coordinates in row-major order
RowMajorPairs ==
    [i \in 1..(width * height) |->
        <<<<(i - 1) % width, (i - 1) \div width>>, grid[i]>>]

\* C20: for every Grid and every Torus, after any sequence of writes,
\* list(g.iter_items()) equals g.items(): the pairs ((x, y), value at (x, y))
\* for all coordinates in row-major order.
C20_IterItemsIsItems ==
    /\ call.op = "iter_items" =>
          /\ ret = Items(width, height, grid)
          /\ ret = Returns(RowMajorPairs)
    /\ call.op = "items" => ret = Returns(RowMajorPairs)

(***************************************************************************)
(*                     Properties of Torus slicing                         *)
(***************************************************************************)
\* the corners are well formed and inside the grid g: top-left before
\* bottom-right, both inside [0, width) x [0, height)
CornersInRange(x1, y1, x2, y2) ==
    /\ x1 >= 0 /\ y1 >= 0 /\ x1 <= x2 /\ y1 <= y2
    /\ x2 <= width - 1 /\ y2 <= height - 1

\* C21: for a Torus t (as for a Grid) and well-formed in-range corners,
\* t[x1:y1, x2:y2] does not fail and returns the GridSliceProxy over that
\* rectangle, the one Grid.__get_slice__ builds.
C21_TorusSlicing ==
    [][ (/\ call'.op = "__getitem__slice"
         /\ CornersInRange(call'.x, call'.y, call'.x2, call'.y2)) =>
          /\ ret' = ReturnsNothing
          /\ proxy' = NewProxy(call'.x, call'.y, call'.x2, call'.y2)
          /\ proxy' = GetSlice(width, height, call'.x, call'.y,
                               call'.x2, call'.y2).proxy
      ]_vars

(***************************************************************************)
(*              Properties of worlds of arbitrary integers                 *)
(***************************************************************************)
\* the number of nonzero cells among the neighbours of (x, y) that lie inside
\* the grid
NonZeroCount(o, x, y) ==
    Cardinality({d \in Offsets :
        /\ 0 <= x + d[1] /\ x + d[1] < o.width
        /\ 0 <= y + d[2] /\ y + d[2] < o.height
        /\ At(o, x + d[1], y + d[2]) # IntVal(Dead)})

\* C22: for a grid whose cells hold any small integers (0, 1, 2),
\* neighbours(world, c) is the number of nonzero cells among the neighbours
\* of c, whatever the magnitude of the values they hold.
C22_NeighboursCount ==
    call.op = "neighbours" =>
       ret = Returns(NonZeroCount(World, call.x, call.y))

\* C25: for every grid of arbitrary integers, step(grid) succeeds and every
\* cell of the result is 0 or 1, given by the rule from the old cell and its
\* neighbours alone (a cell that is not 1 counts as dead), so that no
\* coordinate keeps the value copied from the input.
C25_StepBinary ==
    [][ (call'.op = "step" /\ call'.obj = "g") =>
           /\ ret' = ReturnsNothing
           /\ \A c \in CoordsOf(World) :
                 \E n \in {Neighbours(World, heap[World.grid], c[1], c[2])} :
                    LET old == At(World, c[1], c[2])
                        new == Cell(heap', env'["r"], c[1], c[2])
                    IN  /\ n.exc = "none"
                        /\ new \in {Returns(IntVal(Dead)),
                                    Returns(IntVal(Alive))}
                        /\ new = Returns(IntVal(Alive)) <=>
                              \/ old = IntVal(Alive) /\ n.val[1] \in {2, 3}
                              \/ old # IntVal(Alive) /\ n.val[1] = 3
      ]_vars

\* a world holding a cell that is neither 0 nor 1 was stepped: that cell is 0
\* in the result, which has a live cell
C25_Witness ==
    /\ call.op = "step" /\ call.obj = "g" /\ ret = ReturnsNothing
    /\ \E c \in CoordsOf(World), s \in CoordsOf(World) :
          /\ At(World, c[1], c[2]) \notin Cells
          /\ At(env["r"], c[1], c[2]) = IntVal(Dead)
          /\ At(env["r"], s[1], s[2]) = IntVal(Alive)

(***************************************************************************)
(*                     Properties of coordinates                           *)
(***************************************************************************)
\* the sequence l lists every coordinate of a w x h grid exactly once, in
\* row-major order: y ascending, and x ascending within a row
IsRowMajor(l, w, h) ==
    /\ Len(l) = w * h
    /\ \A c \in Coordinates(w, h) :
          Cardinality({i \in 1..Len(l) : l[i] = c}) = 1
    /\ \A i \in 1..Len(l) : l[i] \in Coordinates(w, h)
    /\ \A i \in 1..Len(l), j \in 1..Len(l) :
          i < j => TupleLT(<<l[i][2], l[i][1]>>, <<l[j][2], l[j][1]>>)

\* C23: g.coordinates lists every valid coordinate exactly once in row-major
\* order (y outer, x inner) and has length width*height; every call returns
\* that sequence, the cached one being the one returned before, and no read
\* or write of a cell changes the dimensions or the cached list.
C23_Coordinates ==
    [][ /\ width' = width /\ height' = height
        /\ call'.op = "coordinates" =>
              /\ ret'.exc = "none"
              /\ IsRowMajor(ret'.val[1], width, height)
              /\ coords.cached => ret'.val[1] = coords.list
              /\ coords'.list = ret'.val[1]
        /\ call'.op \in {"__getitem__", "__setitem__"} => coords' = coords
      ]_vars

\* g.coordinates of a grid that is not square was served from the cache
\* after a cell had been written
C23_Witness ==
    /\ call.op = "coordinates" /\ call.v = 1
    /\ width > 1 /\ height > 1 /\ width # height
    /\ Live(grid) > 0
    /\ ret = Returns(coords.list)
    /\ Len(coords.list) = width * height

(***************************************************************************)
(*                  Properties of conway.py's Grid                         *)
(***************************************************************************)
\* C24: in conway.py, for every width, height and array arr of length
\* width*height, Grid.from_array(width, height, arr)[x, y] succeeds and is
\* arr[y*width + x] for every valid (x, y), and a write to a valid coordinate
\* succeeds and leaves the value read at every other valid coordinate as it
\* was.
C24_ConwayGrid ==
    [][ /\ (/\ call.op = "__init__" /\ call'.op = "__getitem__"
             /\ IsValidLocation(width, height, call'.x, call'.y)) =>
               ret' = Returns(grid[call'.y * width + call'.x + 1])
        /\ (/\ call'.op = "__setitem__"
             /\ IsValidLocation(width, height, call'.x, call'.y)) =>
               /\ ret' = ReturnsNothing
               /\ \A c \in Coordinates(width, height) \ {<<call'.x, call'.y>>} :
                     ConwayGetItem(width, height, grid', c[1], c[2])
                        = ConwayGetItem(width, height, grid, c[1], c[2])
      ]_vars

(***************************************************************************)
(*          Properties of generations under writes by the caller           *)
(***************************************************************************)
\* the grid object o as it was before the caller wrote to it: the copy h
\* kept by the caller if o is the grid r it wrote to, else o itself
AsBeforeWrite(o) == IF env["r"] = o THEN env["h"] ELSE o

\* C26: generations(count, seed) snapshots the seed when it is called: the
\* grid yielded for generation 0 equals the seed as it was at the call, also
\* when the caller has written to the seed between the call and the first
\* next().
C26_SeedSnapshot ==
    [][ (call'.op = "next" /\ gen.pc = "created" /\ gen.num > 0) =>
          /\ Len(yielded') = 1
          /\ SameGrid(heap', yielded'[1].world, AsBeforeWrite(env["g"]))
      ]_vars

\* C27: the grid yielded for generation i+1 is step applied to generation i
\* as it was when it was yielded, also when the consumer has written to the
\* grid of generation i before asking for the next element.
C27_YieldedIsolated ==
    [][ (/\ call'.op = "next" /\ gen.pc = "yielded"
         /\ Len(yielded') > Len(yielded)) =>
          \E s \in {Step(heap, AsBeforeWrite(yielded[Len(yielded)].world))} :
             /\ s.ret.exc = "none"
             /\ CellsOf(heap', yielded'[Len(yielded')].world)
                   = CellsOf(s.heap, s.ret.val[1])
      ]_vars

(***************************************************************************)
(*                Properties of the stepper on a Torus                     *)
(***************************************************************************)
\* the grid object o addressed as a Torus
AsTorus(o) == [o EXCEPT !.cls = "Torus"]

\* C28: for a Torus t, step(t) is a Torus again, and so is every grid
\* yielded by generations(n, t): generation i+1 is step applied to a Torus
\* holding the cells of generation i, so that neighbours are counted with
\* wrapping at every generation.
C28_TorusPreserved ==
    [][ /\ call'.op = "step" =>
              /\ ret' = ReturnsNothing
              /\ env'["r"].cls = "Torus"
        /\ (call'.op = "next" /\ Len(yielded') > Len(yielded)) =>
              /\ yielded'[Len(yielded')].world.cls = "Torus"
              /\ Len(yielded) > 0 =>
                    (\E s \in {Step(heap,
                                     AsTorus(yielded[Len(yielded)].world))} :
                        /\ s.ret.exc = "none"
                        /\ CellsOf(heap', yielded'[Len(yielded')].world)
                              = CellsOf(s.heap, s.ret.val[1]))
      ]_vars

====
